---- MODULE Spec2Model ----
(***************************************************************************)
(* WCKB type script (c/wckb.c): one validation run of main() over a        *)
(* transaction.  Unsigned integers are little-endian byte sequences of the *)
(* width the C type has (uint64_t: 8 bytes, uint128_t: 16 bytes), so that  *)
(* wrap-around and narrowing are what the machine does.                    *)
(***************************************************************************)
EXTENDS Integers, Sequences, FiniteSets, TLC

\* ------------------------------------------------------------------------
\* Program constants
\* ------------------------------------------------------------------------
BLOCK_NUM_LEN == 8
CKB_LEN == 8
UDT_LEN == 16
MAX_SWAPS == 256
NERVOS_DAO_TYPE_HASH == 0

\* ------------------------------------------------------------------------
\* Bounds of the model
\* ------------------------------------------------------------------------
MaxInputs == 2
MaxOutputs == 2

\* ------------------------------------------------------------------------
\* Little-endian byte arithmetic
\* ------------------------------------------------------------------------
RECURSIVE LE(_, _)
\* the len-byte little-endian encoding of a small natural
LE(n, len) == IF len = 0 THEN <<>> ELSE <<n % 256>> \o LE(n \div 256, len - 1)

Zeros(len) == [k \in 1..len |-> 0]

\* zero-extension to a wider unsigned type
ZeroExtend(a, len) == [k \in 1..len |-> IF k <= Len(a) THEN a[k] ELSE 0]

\* truncation to a narrower unsigned type (keeps the low bytes)
Narrow(a, len) == SubSeq(a, 1, len)

RECURSIVE AddBytes(_, _, _)
\* a + b + c over equal-length operands; the result has one more element,
\* the carry out
AddBytes(a, b, c) ==
  IF a = <<>> THEN <<c>>
  ELSE LET s == Head(a) + Head(b) + c
       IN  <<s % 256>> \o AddBytes(Tail(a), Tail(b), s \div 256)

RECURSIVE SubBytes(_, _, _)
\* a - b - c over equal-length operands; the last element is the borrow out
SubBytes(a, b, c) ==
  IF a = <<>> THEN <<c>>
  ELSE LET d == Head(a) - Head(b) - c
       IN  <<(d + 256) % 256>> \o SubBytes(Tail(a), Tail(b), IF d < 0 THEN 1 ELSE 0)

\* wrapping addition and subtraction of the C unsigned types
WrapAdd(a, b) == SubSeq(AddBytes(a, b, 0), 1, Len(a))
WrapSub(a, b) == SubSeq(SubBytes(a, b, 0), 1, Len(a))
AddOverflows(a, b) == AddBytes(a, b, 0)[Len(a) + 1] = 1
\* a < b as unsigned numbers
Lt(a, b) == SubBytes(a, b, 0)[Len(a) + 1] = 1

\* a / 2
Halve(a) ==
  [k \in 1..Len(a) |->
     (a[k] \div 2) + (IF k < Len(a) THEN (a[k + 1] % 2) * 128 ELSE 0)]

\* ------------------------------------------------------------------------
\* Return codes
\* ------------------------------------------------------------------------
RUNNING == "RUNNING"
CKB_SUCCESS == "CKB_SUCCESS"
ERROR_SYSCALL == "ERROR_SYSCALL"
ERROR_ENCODING == "ERROR_ENCODING"
ERROR_OVERFLOW == "ERROR_OVERFLOW"
ERROR_TOO_MANY_SWAPS == "ERROR_TOO_MANY_SWAPS"
ERROR_ALIGN == "ERROR_ALIGN"
ERROR_OUTPUT_ALIGN == "ERROR_OUTPUT_ALIGN"
ERROR_INCORRECT_OUTPUT_WCKB == "ERROR_INCORRECT_OUTPUT_WCKB"
ERROR_INCORRECT_UNINIT_OUTPUT_WCKB == "ERROR_INCORRECT_UNINIT_OUTPUT_WCKB"

ReturnCodes ==
  { CKB_SUCCESS, ERROR_SYSCALL, ERROR_ENCODING, ERROR_OVERFLOW,
    ERROR_TOO_MANY_SWAPS, ERROR_ALIGN, ERROR_OUTPUT_ALIGN,
    ERROR_INCORRECT_OUTPUT_WCKB, ERROR_INCORRECT_UNINIT_OUTPUT_WCKB }

\* ------------------------------------------------------------------------
\* The transaction under validation (read through the CKB syscalls)
\* ------------------------------------------------------------------------
\* ckb_load_script_hash: the hash of the running type script
WCKB_TYPE_HASH == 1
\* the cell has no type script: the syscall answers CKB_ITEM_MISSING
NO_TYPE == -1

\* dao_header_data_t; ar is the binary logarithm of the accumulate rate
Header(bn, ar) == [ok |-> TRUE, block_number |-> LE(bn, 8), ar |-> ar]
\* no header can be loaded for the cell (every output cell)
NoHeader == [ok |-> FALSE, block_number |-> Zeros(8), ar |-> 0]

H0 == Header(0, 0)
H50 == Header(50, 0)
H100 == Header(100, 0)
H150 == Header(150, 1)

Cell(t, data, lock, cap, occ, hdr, dep) ==
  [type_hash |-> t, data |-> data, lock_hash |-> lock,
   capacity |-> LE(cap, CKB_LEN), occupied_capacity |-> LE(occ, CKB_LEN),
   header |-> hdr, deposit_header |-> dep]

\* 2^64 + n as a uint128_t
Pow64Plus(n) == LE(n, 8) \o LE(1, 8)

\* wrapped-token payloads: 16 bytes of amount, then 8 bytes of height
LegacyPayload(amount) == LE(amount, UDT_LEN)
TokenPayload(amount, height) == LE(amount, UDT_LEN) \o LE(height, BLOCK_NUM_LEN)

WckbLegacy100 == Cell(WCKB_TYPE_HASH, LegacyPayload(1000), 1, 300, 200, H100, NoHeader)
\* an amount below the cell's occupied capacity
WckbLegacy150 == Cell(WCKB_TYPE_HASH, LegacyPayload(100), 1, 300, 250, H150, NoHeader)
\* an amount that does not fit uint64_t
WckbWide0 == Cell(WCKB_TYPE_HASH, Pow64Plus(1000), 1, 300, 200, H0, NoHeader)
WckbToken100 == Cell(WCKB_TYPE_HASH, TokenPayload(1000, 100), 1, 300, 200, H100, NoHeader)
Withdraw100 == Cell(NERVOS_DAO_TYPE_HASH, LE(50, 8), 1, 1000, 100, H100, H50)
DaoShort == Cell(NERVOS_DAO_TYPE_HASH, LE(7, 4), 1, 1000, 100, H100, H50)
Untyped == Cell(NO_TYPE, <<>>, 1, 100, 61, H100, NoHeader)

\* The state names the cells of the transaction; CellOf gives the fields the
\* syscalls return for a name.
InputCells ==
  { <<"WckbLegacy100", 0>>, <<"WckbLegacy150", 0>>, <<"WckbWide0", 0>>,
    <<"WckbToken100", 0>>, <<"Withdraw100", 0>>, <<"DaoShort", 0>>,
    <<"Untyped", 0>> }

Deposit(lock) == Cell(NERVOS_DAO_TYPE_HASH, Zeros(8), lock, 500, 100, NoHeader, NoHeader)
Uninit(lock) == Cell(WCKB_TYPE_HASH, TokenPayload(500, 0), lock, 300, 200, NoHeader, NoHeader)
Inited(amount, height) ==
  Cell(WCKB_TYPE_HASH, TokenPayload(amount, height), 1, 300, 200, NoHeader, NoHeader)
DaoShortOut == Cell(NERVOS_DAO_TYPE_HASH, LE(7, 4), 1, 1000, 100, NoHeader, NoHeader)

OutputCells ==
  { <<"Deposit", 1>>, <<"Uninit", 1>>, <<"Inited", 100>>, <<"Inited", 150>>,
    <<"DaoShortOut", 0>> }

CellOf(name) ==
  CASE name[1] = "WckbLegacy100" -> WckbLegacy100
    [] name[1] = "WckbLegacy150" -> WckbLegacy150
    [] name[1] = "WckbWide0" -> WckbWide0
    [] name[1] = "WckbToken100" -> WckbToken100
    [] name[1] = "Withdraw100" -> Withdraw100
    [] name[1] = "DaoShort" -> DaoShort
    [] name[1] = "Untyped" -> Untyped
    [] name[1] = "Deposit" -> Deposit(name[2])
    [] name[1] = "Uninit" -> Uninit(name[2])
    [] name[1] = "Inited" -> Inited(1000, name[2])
    [] name[1] = "DaoShortOut" -> DaoShortOut

SeqsUpTo(S, n) == UNION { [1..k -> S] : k \in 0..n }

\* more cells than a bucket holds
LongInputs ==
  << <<"WckbLegacy100", 0>> >> \o [k \in 1..(MAX_SWAPS + 1) |-> <<"Withdraw100", 0>>]
LongOutputs == [k \in 1..(MAX_SWAPS + 1) |-> <<"Uninit", 10 + k>>]

Transactions ==
  { [ins |-> a, outs |-> b] :
      a \in SeqsUpTo(InputCells, MaxInputs), b \in SeqsUpTo(OutputCells, MaxOutputs) }
  \cup { [ins |-> LongInputs, outs |-> <<>>],
         [ins |-> << <<"WckbLegacy100", 0>> >>, outs |-> LongOutputs] }

\* what the 8 bytes behind a 16-byte payload in buf can hold when they are read
GarbageU64 == { LE(100, 8), LE(150, 8) }
\* what the uninitialised calculated_capacity can hold when it is read
GarbageCapacity == { LE(0, 8), LE(1000, 8) }
\* what the int behind a stray int pointer can hold when it is read
GarbageInt == { -1, 0, 1, MAX_SWAPS }

\* ------------------------------------------------------------------------
\* State
\* ------------------------------------------------------------------------
VARIABLES
  inputs, outputs,          \* the cells of the transaction, by name
  pc, ret,                  \* position in main(), and main's return value
  i,                        \* the loop index of the running loop
  align_target_data,        \* header of the first input of the script group
  withdraw_dao_infos, input_wckb_infos,
  deposited_dao,            \* written slots of the array, by index
  deposited_dao_cnt,        \* main's counter
  cnt_ptr,                  \* fetch_outputs' pointer deposited_dao_cnt, as an
                            \* offset in ints from main's counter
  uninitialized_wckb, initialized_wckb,
  calculated_capacity,
  total_withdraw_dao, total_input_wckb, total_output_wckb,
  align_load,               \* the (source, index) align_dao last loaded from
  out_of_bounds             \* the indexes outside 0..MAX_SWAPS-1 at which an
                            \* array of MAX_SWAPS elements was written

vars ==
  << inputs, outputs, pc, ret, i, align_target_data,
     withdraw_dao_infos, input_wckb_infos, deposited_dao, deposited_dao_cnt,
     cnt_ptr, uninitialized_wckb, initialized_wckb, calculated_capacity,
     total_withdraw_dao, total_input_wckb, total_output_wckb, align_load,
     out_of_bounds >>

txvars == << inputs, outputs >>

\* the cell at position p (from 1) of a side
Input(p) == CellOf(inputs[p])
Output(p) == CellOf(outputs[p])
invars == << withdraw_dao_infos, input_wckb_infos >>
outvars == << deposited_dao, deposited_dao_cnt, cnt_ptr, uninitialized_wckb,
              initialized_wckb >>
sumvars == << calculated_capacity, total_withdraw_dao, total_input_wckb,
              total_output_wckb, align_load >>

NoLoad == [source |-> "none", index |-> -1]

Init ==
  /\ \E tx \in Transactions : inputs = tx.ins /\ outputs = tx.outs
  /\ pc = "main"
  /\ ret = RUNNING
  /\ i = 0
  /\ align_target_data = NoHeader
  /\ withdraw_dao_infos = <<>>
  /\ input_wckb_infos = <<>>
  /\ deposited_dao = <<>>
  /\ deposited_dao_cnt = 0
  /\ cnt_ptr = 0
  /\ uninitialized_wckb = <<>>
  /\ initialized_wckb = <<>>
  /\ calculated_capacity = Zeros(CKB_LEN)
  /\ total_withdraw_dao = Zeros(CKB_LEN)
  /\ total_input_wckb = Zeros(CKB_LEN)
  /\ total_output_wckb = Zeros(CKB_LEN)
  /\ align_load = NoLoad
  /\ out_of_bounds = {}

\* main returns r
Return(r) == ret' = r /\ pc' = pc

\* a write outside an array of main's frame: the behaviour is undefined, the
\* run can end with any result
Corrupt(index) ==
  /\ out_of_bounds' = out_of_bounds \cup {index}
  /\ \E r \in ReturnCodes : Return(r)

\* the entries are aligned before the outputs are scanned
StageAfterAlignFirst(stage) ==
  CASE stage = "main" -> "fetch_inputs"
    [] stage = "fetch_inputs" -> "align_withdraw"
    [] stage = "align_withdraw" -> "align_input"
    [] stage = "align_input" -> "fetch_outputs"
    [] stage = "fetch_outputs" -> "align_output"
    [] stage = "align_output" -> "equation1"
    [] stage = "equation1" -> "equation2"

\* the order in which main goes through its stages
StageAfter(stage) ==
  CASE stage = "main" -> "fetch_inputs"
    [] stage = "fetch_inputs" -> "fetch_outputs"
    [] stage = "fetch_outputs" -> "align_withdraw"
    [] stage = "align_withdraw" -> "align_input"
    [] stage = "align_input" -> "align_output"
    [] stage = "align_output" -> "equation1"
    [] stage = "equation1" -> "equation2"

\* ------------------------------------------------------------------------
\* main, up to fetch_inputs
\* ------------------------------------------------------------------------
\* positions (0-based) of the inputs of the script group
GroupInputs == { k \in 0..(Len(inputs) - 1) : Input(k + 1).type_hash = WCKB_TYPE_HASH }
Min(S) == CHOOSE m \in S : \A n \in S : m <= n

\* load_dao_header_data(index 0, CKB_SOURCE_GROUP_INPUT)
MainStart ==
  /\ pc = "main" /\ ret = RUNNING
  /\ IF GroupInputs = {}
     THEN /\ Return(ERROR_ENCODING)
          /\ UNCHANGED << i, align_target_data >>
     ELSE /\ align_target_data' = Input(Min(GroupInputs) + 1).header
          /\ pc' = StageAfter(pc)
          /\ i' = 0
          /\ ret' = ret
  /\ UNCHANGED << txvars, invars, outvars, sumvars, out_of_bounds >>

\* ------------------------------------------------------------------------
\* NervosDAO helpers
\* ------------------------------------------------------------------------
is_dao_deposit_cell(cell_type_hash, data, data_len) ==
  /\ cell_type_hash = NERVOS_DAO_TYPE_HASH
  /\ data_len = BLOCK_NUM_LEN
  /\ SubSeq(data, 1, BLOCK_NUM_LEN) = Zeros(BLOCK_NUM_LEN)

is_dao_withdraw1_cell(cell_type_hash, data, data_len) ==
  /\ cell_type_hash = NERVOS_DAO_TYPE_HASH
  /\ data_len = BLOCK_NUM_LEN
  /\ SubSeq(data, 1, BLOCK_NUM_LEN) # Zeros(BLOCK_NUM_LEN)

\* The accrual function of dao_utils.h: the capacity above the occupied one
\* grows with the ratio of the two accumulate rates.  The result record is
\* the return code and the value of *calculated_capacity afterwards.
calculate_dao_input_capacity(occupied_capacity, deposit_data, withdraw_data, deposited_block_number, original_capacity, old) ==
  IF Lt(original_capacity, occupied_capacity)
  THEN [ret |-> ERROR_OVERFLOW, calc |-> old]
  ELSE
    LET counted == WrapSub(original_capacity, occupied_capacity)
        k == withdraw_data.ar - deposit_data.ar
        over == k > 0 /\ AddOverflows(counted, counted)
        grown == IF k > 0 THEN WrapAdd(counted, counted)
                 ELSE IF k < 0 THEN Halve(counted) ELSE counted
    IN  IF over \/ AddOverflows(occupied_capacity, grown)
        THEN [ret |-> ERROR_OVERFLOW, calc |-> old]
        ELSE [ret |-> CKB_SUCCESS, calc |-> WrapAdd(occupied_capacity, grown)]

TokenInfo(block_number, amount) == [block_number |-> block_number, amount |-> amount]
SwapInfo(lock_hash, amount) == [lock_hash |-> lock_hash, amount |-> amount]

\* ------------------------------------------------------------------------
\* fetch_inputs: one iteration of its loop
\* ------------------------------------------------------------------------
\* the length the wrapped-token branch of fetch_inputs accepts
InputWckbLen == UDT_LEN

FetchInputsStep ==
  /\ pc = "fetch_inputs" /\ ret = RUNNING
  /\ IF i >= Len(inputs)
     THEN \* CKB_INDEX_OUT_OF_BOUND: fetch_inputs returns CKB_SUCCESS and main
          \* calls fetch_outputs, which clears its three counters
          /\ pc' = StageAfter(pc)
          /\ i' = 0
          /\ deposited_dao_cnt' = 0
          /\ cnt_ptr' = 0
          /\ uninitialized_wckb' = <<>>
          /\ initialized_wckb' = <<>>
          /\ UNCHANGED << ret, invars, deposited_dao, out_of_bounds >>
     ELSE
       LET cell == Input(i + 1)
           len == Len(cell.data)
       IN
       /\ UNCHANGED outvars
       /\ IF cell.type_hash = NO_TYPE
          THEN \* CKB_ITEM_MISSING
               /\ i' = i + 1
               /\ UNCHANGED << pc, ret, invars, out_of_bounds >>
          ELSE IF len > UDT_LEN + BLOCK_NUM_LEN
          THEN /\ Return(ERROR_ENCODING)
               /\ UNCHANGED << i, invars, out_of_bounds >>
          ELSE IF is_dao_withdraw1_cell(cell.type_hash, cell.data, len)
          THEN \* withdraw NervosDAO
               LET deposited_block_number == SubSeq(cell.data, 1, BLOCK_NUM_LEN)
                   r == calculate_dao_input_capacity(
                          cell.occupied_capacity, cell.deposit_header, cell.header,
                          deposited_block_number, cell.capacity, Zeros(CKB_LEN))
                   j == Len(withdraw_dao_infos)
               IN  IF j >= MAX_SWAPS
                   THEN /\ Corrupt(j)
                        /\ UNCHANGED << i, invars >>
                   ELSE /\ withdraw_dao_infos' =
                             Append(withdraw_dao_infos,
                                    TokenInfo(cell.header.block_number,
                                              ZeroExtend(r.calc, UDT_LEN)))
                        /\ i' = i + 1
                        /\ UNCHANGED << pc, ret, input_wckb_infos, out_of_bounds >>
          ELSE IF cell.type_hash = WCKB_TYPE_HASH
          THEN \* WCKB
               IF len # InputWckbLen
               THEN /\ Return(ERROR_ENCODING)
                    /\ UNCHANGED << i, invars, out_of_bounds >>
               ELSE LET j == Len(input_wckb_infos)
                    IN  IF j >= MAX_SWAPS
                        THEN /\ Corrupt(j)
                             /\ UNCHANGED << i, invars >>
                        ELSE \* buf + UDT_LEN was not written by the load
                             \E block_number \in GarbageU64 :
                               /\ input_wckb_infos' =
                                    Append(input_wckb_infos,
                                           TokenInfo(block_number,
                                                     SubSeq(cell.data, 1, UDT_LEN)))
                               /\ i' = i + 1
                               /\ UNCHANGED << pc, ret, withdraw_dao_infos,
                                               out_of_bounds >>
          ELSE /\ i' = i + 1
               /\ UNCHANGED << pc, ret, invars, out_of_bounds >>
  /\ UNCHANGED << txvars, align_target_data, sumvars >>

\* ------------------------------------------------------------------------
\* fetch_outputs: one iteration of its loop
\* ------------------------------------------------------------------------
find_swap_by_lock_hash(swap_infos, swap_infos_cnt, lock_hash) ==
  LET hits == { j \in 0..(swap_infos_cnt - 1) :
                  j \in DOMAIN swap_infos /\ swap_infos[j].lock_hash = lock_hash }
  IN  IF hits = {} THEN -1 ELSE Min(hits)

find_token_by_block_number(token_infos, token_infos_cnt, block_number) ==
  LET hits == { j \in 0..(token_infos_cnt - 1) :
                  token_infos[j + 1].block_number = block_number }
  IN  IF hits = {} THEN -1 ELSE Min(hits)

\* the uninitialised wrapped-token bucket is a sequence: slot j is element j+1
FindUninit(lock_hash) ==
  LET hits == { j \in 0..(Len(uninitialized_wckb) - 1) :
                  uninitialized_wckb[j + 1].lock_hash = lock_hash }
  IN  IF hits = {} THEN -1 ELSE Min(hits)

OutputAlignedAlways(block_number, align_block_number) == TRUE

\* the test fetch_outputs makes of an initialised output's height
OutputAligned(block_number, align_block_number) ==
  block_number = align_block_number

\* the test that sends a wrapped-token output to the uninitialised bucket
IsUninitialized(block_number) == block_number = Zeros(BLOCK_NUM_LEN)

\* deposited dao cell at outputs[i]
FetchDeposit(cell) ==
  \* *deposited_dao_cnt: main's counter while the pointer still points at it,
  \* afterwards whatever int lies behind the moved pointer
  \E cnt \in (IF cnt_ptr = 0 THEN {deposited_dao_cnt} ELSE GarbageInt) :
  \* whether a slot below cnt that was never written compares equal
  \E junk \in BOOLEAN :
    LET amount == cell.capacity
        unwritten == { j \in 0..(cnt - 1) : j \notin DOMAIN deposited_dao }
        found == find_swap_by_lock_hash(deposited_dao, cnt, cell.lock_hash)
    IN
    /\ junk => \E u \in unwritten : found < 0 \/ u < found
    /\ UNCHANGED << deposited_dao_cnt, uninitialized_wckb, initialized_wckb >>
    /\ IF junk
       THEN \* the sum lands in a slot that holds no entry
            /\ i' = i + 1
            /\ UNCHANGED << pc, ret, deposited_dao, cnt_ptr, out_of_bounds >>
       ELSE IF found >= 0
       THEN /\ deposited_dao' =
                 [deposited_dao EXCEPT ![found].amount =
                    WrapAdd(@, ZeroExtend(amount, UDT_LEN))]
            /\ i' = i + 1
            /\ UNCHANGED << pc, ret, cnt_ptr, out_of_bounds >>
       ELSE IF cnt >= MAX_SWAPS
       THEN /\ Return(ERROR_TOO_MANY_SWAPS)
            /\ UNCHANGED << i, deposited_dao, cnt_ptr, out_of_bounds >>
       ELSE \* deposited_dao_cnt++ moves the pointer, not the counter
            /\ cnt_ptr' = cnt_ptr + 1
            /\ IF cnt \in 0..(MAX_SWAPS - 1)
               THEN /\ deposited_dao' =
                         [j \in DOMAIN deposited_dao \cup {cnt} |->
                            IF j = cnt
                            THEN SwapInfo(cell.lock_hash, ZeroExtend(amount, UDT_LEN))
                            ELSE deposited_dao[j]]
                    /\ i' = i + 1
                    /\ UNCHANGED << pc, ret, out_of_bounds >>
               ELSE /\ Corrupt(cnt)
                    /\ UNCHANGED << i, deposited_dao >>

\* wrapped-token cell at outputs[i]
FetchWckbOutput(cell, len) ==
  /\ UNCHANGED << deposited_dao, deposited_dao_cnt, cnt_ptr, out_of_bounds >>
  /\ IF len # UDT_LEN + BLOCK_NUM_LEN
     THEN /\ Return(ERROR_ENCODING)
          /\ UNCHANGED << i, uninitialized_wckb, initialized_wckb >>
     ELSE
       LET amount == SubSeq(cell.data, 1, UDT_LEN)
           block_number == SubSeq(cell.data, UDT_LEN + 1, UDT_LEN + BLOCK_NUM_LEN)
       IN
       IF IsUninitialized(block_number)
       THEN LET found == FindUninit(cell.lock_hash)
            IN  /\ UNCHANGED initialized_wckb
                /\ IF found >= 0
                   THEN /\ uninitialized_wckb' =
                             [uninitialized_wckb EXCEPT ![found + 1].amount =
                                WrapAdd(@, amount)]
                        /\ i' = i + 1
                        /\ UNCHANGED << pc, ret >>
                   ELSE IF Len(uninitialized_wckb) >= MAX_SWAPS
                   THEN /\ Return(ERROR_TOO_MANY_SWAPS)
                        /\ UNCHANGED << i, uninitialized_wckb >>
                   ELSE /\ uninitialized_wckb' =
                             Append(uninitialized_wckb, SwapInfo(cell.lock_hash, amount))
                        /\ i' = i + 1
                        /\ UNCHANGED << pc, ret >>
       ELSE /\ UNCHANGED uninitialized_wckb
            /\ IF ~OutputAligned(block_number, align_target_data.block_number)
               THEN /\ Return(ERROR_OUTPUT_ALIGN)
                    /\ UNCHANGED << i, initialized_wckb >>
               ELSE
                 LET found == find_token_by_block_number(
                                initialized_wckb, Len(initialized_wckb), block_number)
                 IN  IF found >= 0
                     THEN /\ initialized_wckb' =
                               [initialized_wckb EXCEPT ![found + 1].amount =
                                  WrapAdd(@, amount)]
                          /\ i' = i + 1
                          /\ UNCHANGED << pc, ret >>
                     ELSE IF Len(initialized_wckb) >= MAX_SWAPS
                     THEN /\ Return(ERROR_TOO_MANY_SWAPS)
                          /\ UNCHANGED << i, initialized_wckb >>
                     ELSE /\ initialized_wckb' =
                               Append(initialized_wckb, TokenInfo(block_number, amount))
                          /\ i' = i + 1
                          /\ UNCHANGED << pc, ret >>

FetchOutputsStep ==
  /\ pc = "fetch_outputs" /\ ret = RUNNING
  /\ UNCHANGED << txvars, align_target_data, invars, total_input_wckb,
                  total_output_wckb, align_load >>
  /\ IF i >= Len(outputs)
     THEN \* CKB_INDEX_OUT_OF_BOUND: fetch_outputs returns CKB_SUCCESS and main
          \* enters its first loop; calculated_capacity has no initialiser
          /\ pc' = StageAfter(pc)
          /\ i' = 0
          /\ total_withdraw_dao' = Zeros(CKB_LEN)
          /\ calculated_capacity' \in GarbageCapacity
          /\ UNCHANGED << ret, outvars, out_of_bounds >>
     ELSE
       LET cell == Output(i + 1)
           len == Len(cell.data)
       IN
       /\ UNCHANGED << calculated_capacity, total_withdraw_dao >>
       /\ IF cell.type_hash = NO_TYPE
          THEN /\ i' = i + 1
               /\ UNCHANGED << pc, ret, outvars, out_of_bounds >>
          ELSE IF len > UDT_LEN + BLOCK_NUM_LEN
          THEN /\ Return(ERROR_ENCODING)
               /\ UNCHANGED << i, outvars, out_of_bounds >>
          ELSE IF is_dao_deposit_cell(cell.type_hash, cell.data, len)
          THEN FetchDeposit(cell)
          ELSE IF cell.type_hash = WCKB_TYPE_HASH
          THEN FetchWckbOutput(cell, len)
          ELSE /\ i' = i + 1
               /\ UNCHANGED << pc, ret, outvars, out_of_bounds >>

\* ------------------------------------------------------------------------
\* align_dao
\* ------------------------------------------------------------------------
CKB_ITEM_MISSING == "CKB_ITEM_MISSING"

CellsOf(source) == IF source = "input" THEN inputs ELSE outputs

AlignsBackwardNever(target_block_number, deposited_block_number) == FALSE

\* the direction test of align_dao: the entry is younger than the target
AlignsBackward(target_block_number, deposited_block_number) ==
  Lt(target_block_number, deposited_block_number)

\* original_capacity is the caller's amount, already narrowed to uint64_t;
\* old is *calculated_capacity before the call.  The result record is the
\* return code, *calculated_capacity afterwards and the cell loaded from.
align_dao(idx, source, target, deposited_block_number, original_capacity, old) ==
  IF target.block_number = deposited_block_number
  THEN \* assigns the parameter, not *calculated_capacity
       [ret |-> CKB_SUCCESS, calc |-> old, load |-> align_load]
  ELSE IF AlignsBackward(target.block_number, deposited_block_number)
  THEN [ret |-> ERROR_ALIGN, calc |-> old, load |-> align_load]
  ELSE
    LET cells == CellsOf(source)
        here == [source |-> source, index |-> idx]
    IN
    IF idx >= Len(cells)
    THEN [ret |-> ERROR_ENCODING, calc |-> old, load |-> here]
    ELSE
      LET cell == CellOf(cells[idx + 1])
          deposit_data == cell.header
          h == IF deposited_block_number = Zeros(BLOCK_NUM_LEN)
               THEN deposit_data.block_number
               ELSE deposited_block_number
          r == calculate_dao_input_capacity(cell.occupied_capacity, deposit_data,
                                            target, h, original_capacity, old)
      IN  IF ~deposit_data.ok
          THEN [ret |-> CKB_ITEM_MISSING, calc |-> old, load |-> here]
          ELSE [ret |-> r.ret, calc |-> r.calc, load |-> here]

\* main's call of align_dao for entry i of a bucket
AlignCall(bucket, source) ==
  align_dao(i, source, align_target_data, bucket[i + 1].block_number,
            Narrow(bucket[i + 1].amount, CKB_LEN), calculated_capacity)

\* ------------------------------------------------------------------------
\* main: the three alignment loops, one iteration each
\* ------------------------------------------------------------------------
AlignWithdrawStep ==
  /\ pc = "align_withdraw" /\ ret = RUNNING
  /\ UNCHANGED << txvars, align_target_data, invars, outvars, out_of_bounds,
                  total_output_wckb >>
  /\ IF i >= Len(withdraw_dao_infos)
     THEN /\ pc' = StageAfter(pc)
          /\ i' = 0
          /\ total_input_wckb' = Zeros(CKB_LEN)
          /\ UNCHANGED << ret, calculated_capacity, total_withdraw_dao, align_load >>
     ELSE LET r == AlignCall(withdraw_dao_infos, "input")
          IN  /\ calculated_capacity' = r.calc
              /\ align_load' = r.load
              /\ UNCHANGED total_input_wckb
              /\ IF r.ret # CKB_SUCCESS
                 THEN /\ Return(r.ret)
                      /\ UNCHANGED << i, total_withdraw_dao >>
                 ELSE /\ total_withdraw_dao' = WrapAdd(total_withdraw_dao, r.calc)
                      /\ i' = i + 1
                      /\ UNCHANGED << pc, ret >>

AlignInputStep ==
  /\ pc = "align_input" /\ ret = RUNNING
  /\ UNCHANGED << txvars, align_target_data, invars, outvars, out_of_bounds,
                  total_withdraw_dao >>
  /\ IF i >= Len(input_wckb_infos)
     THEN /\ pc' = StageAfter(pc)
          /\ i' = 0
          /\ total_output_wckb' = Zeros(CKB_LEN)
          /\ UNCHANGED << ret, calculated_capacity, total_input_wckb, align_load >>
     ELSE LET r == AlignCall(input_wckb_infos, "input")
          IN  /\ calculated_capacity' = r.calc
              /\ align_load' = r.load
              /\ UNCHANGED total_output_wckb
              /\ IF r.ret # CKB_SUCCESS
                 THEN /\ Return(r.ret)
                      /\ UNCHANGED << i, total_input_wckb >>
                 ELSE /\ total_input_wckb' = WrapAdd(total_input_wckb, r.calc)
                      /\ i' = i + 1
                      /\ UNCHANGED << pc, ret >>

AlignOutputStep ==
  /\ pc = "align_output" /\ ret = RUNNING
  /\ UNCHANGED << txvars, align_target_data, invars, outvars, out_of_bounds,
                  total_withdraw_dao, total_input_wckb >>
  /\ IF i >= Len(initialized_wckb)
     THEN /\ pc' = StageAfter(pc)
          /\ i' = 0
          /\ UNCHANGED << ret, calculated_capacity, total_output_wckb, align_load >>
     ELSE LET r == AlignCall(initialized_wckb, "output")
          IN  /\ calculated_capacity' = r.calc
              /\ align_load' = r.load
              /\ IF r.ret # CKB_SUCCESS
                 THEN /\ Return(r.ret)
                      /\ UNCHANGED << i, total_output_wckb >>
                 ELSE /\ total_output_wckb' = WrapAdd(total_output_wckb, r.calc)
                      /\ i' = i + 1
                      /\ UNCHANGED << pc, ret >>

\* ------------------------------------------------------------------------
\* main: the two equations
\* ------------------------------------------------------------------------
\* inputs WCKB - withdraw NervosDAO == outputs WCKB, in uint64_t
Equation1(input_wckb, withdraw_dao, output_wckb) ==
  WrapSub(input_wckb, withdraw_dao) = output_wckb

CheckEquation1 ==
  /\ pc = "equation1" /\ ret = RUNNING
  /\ IF ~Equation1(total_input_wckb, total_withdraw_dao, total_output_wckb)
     THEN Return(ERROR_INCORRECT_OUTPUT_WCKB)
     ELSE pc' = StageAfter(pc) /\ ret' = ret
  /\ UNCHANGED << txvars, i, align_target_data, invars, outvars, sumvars,
                  out_of_bounds >>

\* uninited WCKB == deposited NervosDAO: the entry at index k has a match
Equation2(k) ==
  LET found == find_swap_by_lock_hash(deposited_dao, deposited_dao_cnt,
                                      uninitialized_wckb[k + 1].lock_hash)
  IN  /\ found >= 0
      /\ uninitialized_wckb[k + 1].amount = deposited_dao[found].amount

CheckEquation2 ==
  /\ pc = "equation2" /\ ret = RUNNING
  /\ IF \E k \in 0..(Len(uninitialized_wckb) - 1) : ~Equation2(k)
     THEN Return(ERROR_INCORRECT_UNINIT_OUTPUT_WCKB)
     ELSE Return(CKB_SUCCESS)
  /\ UNCHANGED << txvars, i, align_target_data, invars, outvars, sumvars,
                  out_of_bounds >>

\* ------------------------------------------------------------------------
\* Specification
\* ------------------------------------------------------------------------
Next ==
  \/ MainStart
  \/ FetchInputsStep
  \/ FetchOutputsStep
  \/ AlignWithdrawStep
  \/ AlignInputStep
  \/ AlignOutputStep
  \/ CheckEquation1
  \/ CheckEquation2

Spec == Init /\ [][Next]_vars

\* ------------------------------------------------------------------------
\* Exact arithmetic and the cells behind the buckets, for the properties
\* ------------------------------------------------------------------------
\* wide enough for any sum of uint128_t amounts of a transaction
ExactLen == UDT_LEN + BLOCK_NUM_LEN
Exact(a) == ZeroExtend(a, ExactLen)
ExactAdd(a, b) == WrapAdd(Exact(a), Exact(b))

RECURSIVE ExactSum(_)
ExactSum(amounts) ==
  IF amounts = <<>> THEN Zeros(ExactLen)
  ELSE ExactAdd(Head(amounts), ExactSum(Tail(amounts)))

Returned == ret # RUNNING

\* the k-th smallest (k from 0) element of a set of naturals
RECURSIVE Nth(_, _)
Nth(S, k) == IF k = 0 THEN Min(S) ELSE Nth(S \ {Min(S)}, k - 1)

Typed(cell) ==
  cell.type_hash # NO_TYPE /\ Len(cell.data) <= UDT_LEN + BLOCK_NUM_LEN

\* positions of the input cells that are deposit withdrawals
WithdrawPositions ==
  { p \in 0..(Len(inputs) - 1) :
      /\ Typed(Input(p + 1))
      /\ Input(p + 1).type_hash = NERVOS_DAO_TYPE_HASH
      /\ Len(Input(p + 1).data) = BLOCK_NUM_LEN
      /\ Input(p + 1).data # Zeros(BLOCK_NUM_LEN) }

\* positions of the input cells that carry the wrapped token
InputWckbPositions ==
  { p \in 0..(Len(inputs) - 1) :
      Typed(Input(p + 1)) /\ Input(p + 1).type_hash = WCKB_TYPE_HASH }

\* the aligned amount of a bucketed entry that came from input position p,
\* without wrap-around or narrowing; ok is FALSE where alignment must fail
ExactAligned(entry, p) ==
  IF entry.block_number = align_target_data.block_number
  THEN [ok |-> TRUE, amount |-> Exact(entry.amount)]
  ELSE IF Lt(align_target_data.block_number, entry.block_number)
  THEN [ok |-> FALSE, amount |-> Zeros(ExactLen)]
  ELSE LET r == calculate_dao_input_capacity(
                  Exact(Input(p + 1).occupied_capacity), Input(p + 1).header,
                  align_target_data, entry.block_number, Exact(entry.amount),
                  Zeros(ExactLen))
       IN  [ok |-> r.ret = CKB_SUCCESS, amount |-> r.calc]

ExactWithdrawn ==
  [k \in 1..Len(withdraw_dao_infos) |->
     ExactAligned(withdraw_dao_infos[k], Nth(WithdrawPositions, k - 1))]
ExactInput ==
  [k \in 1..Len(input_wckb_infos) |->
     ExactAligned(input_wckb_infos[k], Nth(InputWckbPositions, k - 1))]

Amounts(aligned) == [k \in 1..Len(aligned) |-> aligned[k].amount]
AllOk(aligned) == \A k \in 1..Len(aligned) : aligned[k].ok

\* the wrapped-token outputs, by their payload
WckbOutputs ==
  { p \in 1..Len(outputs) :
      /\ Output(p).type_hash = WCKB_TYPE_HASH
      /\ Len(Output(p).data) = UDT_LEN + BLOCK_NUM_LEN }
OutputHeight(p) == SubSeq(Output(p).data, UDT_LEN + 1, UDT_LEN + BLOCK_NUM_LEN)
OutputAmount(p) == SubSeq(Output(p).data, 1, UDT_LEN)
InitializedOutputs == { p \in WckbOutputs : OutputHeight(p) # Zeros(BLOCK_NUM_LEN) }
UninitializedOutputs == { p \in WckbOutputs : OutputHeight(p) = Zeros(BLOCK_NUM_LEN) }
DepositOutputs ==
  { p \in 1..Len(outputs) :
      /\ Output(p).type_hash = NERVOS_DAO_TYPE_HASH
      /\ Output(p).data = Zeros(BLOCK_NUM_LEN) }

\* a finite set of naturals as the increasing sequence of its elements
Sorted(S) == [k \in 1..Cardinality(S) |-> Nth(S, k - 1)]

ExactOutputTotal ==
  ExactSum([k \in 1..Cardinality(InitializedOutputs) |->
              OutputAmount(Sorted(InitializedOutputs)[k])])
ExactInputTotal == ExactSum(Amounts(ExactInput))
ExactWithdrawnTotal == ExactSum(Amounts(ExactWithdrawn))

\* equation 1 over the true values
ExactEquation1 ==
  /\ AllOk(ExactInput) /\ AllOk(ExactWithdrawn)
  /\ ~Lt(ExactInputTotal, ExactWithdrawnTotal)
  /\ ExactInputTotal = ExactAdd(ExactWithdrawnTotal, ExactOutputTotal)

\* main went through both scans and all three alignment loops
ReachedEquations == pc \in {"equation1", "equation2"}

\* C1: main returns success only if equation 1 holds over the true integer
\* values, and a withdrawn total above the input total is rejected with
\* ERROR_INCORRECT_OUTPUT_WCKB.
C1_ExactEquation1 ==
  /\ (ReachedEquations /\ ret = CKB_SUCCESS) => ExactEquation1
  /\ (ReachedEquations /\ Returned /\ AllOk(ExactInput) /\ AllOk(ExactWithdrawn)
        /\ Lt(ExactInputTotal, ExactWithdrawnTotal))
       => ret = ERROR_INCORRECT_OUTPUT_WCKB

\* ------------------------------------------------------------------------
\* C2: equation 2
\* ------------------------------------------------------------------------
UninitTotal(lock) ==
  LET S == Sorted({ p \in UninitializedOutputs : Output(p).lock_hash = lock })
  IN  ExactSum([k \in 1..Len(S) |-> OutputAmount(S[k])])
DepositTotal(lock) ==
  LET S == Sorted({ p \in DepositOutputs : Output(p).lock_hash = lock })
  IN  ExactSum([k \in 1..Len(S) |-> Output(S[k]).capacity])

\* some lock of an uninitialised output has no deposit of the same total
UnmatchedUninit ==
  \E p \in UninitializedOutputs :
    \/ ~\E q \in DepositOutputs : Output(q).lock_hash = Output(p).lock_hash
    \/ DepositTotal(Output(p).lock_hash) # UninitTotal(Output(p).lock_hash)

\* C2: once equation 1 has passed, the run is rejected with
\* ERROR_INCORRECT_UNINIT_OUTPUT_WCKB if and only if some lock hash of the
\* uninitialised outputs has no deposit-creation output of the same lock hash
\* and the same summed amount; a matched mint (Scenario B) is accepted.
C2_Equation2 ==
  (pc = "equation2" /\ Returned)
    => (ret = ERROR_INCORRECT_UNINIT_OUTPUT_WCKB <=> UnmatchedUninit)

\* ------------------------------------------------------------------------
\* C3: wrapped-token inputs
\* ------------------------------------------------------------------------
AtInput == pc = "fetch_inputs" /\ ret = RUNNING /\ i < Len(inputs)
AtOutput == pc = "fetch_outputs" /\ ret = RUNNING /\ i < Len(outputs)

\* C3: an input cell of the script's own type with a 24-byte payload is
\* bucketed with amount = leading 16 bytes and block_number = trailing 8 bytes,
\* one with a 16-byte payload with that amount and block_number 0; neither is
\* an encoding error.
C3_InputPayloadForms ==
  [][ (/\ AtInput
       /\ Input(i + 1).type_hash = WCKB_TYPE_HASH
       /\ Len(Input(i + 1).data) \in {UDT_LEN, UDT_LEN + BLOCK_NUM_LEN}
       /\ Len(input_wckb_infos) < MAX_SWAPS)
      => (/\ ret' = RUNNING
          /\ input_wckb_infos' =
               Append(input_wckb_infos,
                      TokenInfo(IF Len(Input(i + 1).data) = UDT_LEN
                                THEN Zeros(BLOCK_NUM_LEN)
                                ELSE SubSeq(Input(i + 1).data, UDT_LEN + 1,
                                            UDT_LEN + BLOCK_NUM_LEN),
                                SubSeq(Input(i + 1).data, 1, UDT_LEN)))) ]_vars

\* ------------------------------------------------------------------------
\* C6: bucket capacity
\* ------------------------------------------------------------------------
\* C6: each of the five buckets holds at most MAX_SWAPS entries, no entry is
\* written at an index outside 0..MAX_SWAPS-1, and the cell that would add
\* one more entry ends the run with ERROR_TOO_MANY_SWAPS.
C6_BucketCapacity ==
  /\ Len(withdraw_dao_infos) <= MAX_SWAPS
  /\ Len(input_wckb_infos) <= MAX_SWAPS
  /\ Len(uninitialized_wckb) <= MAX_SWAPS
  /\ Len(initialized_wckb) <= MAX_SWAPS
  /\ \A k \in DOMAIN deposited_dao \cup out_of_bounds : k < MAX_SWAPS
  /\ (/\ Returned
      /\ pc = "fetch_inputs"
      /\ i < Len(inputs)
      /\ is_dao_withdraw1_cell(Input(i + 1).type_hash, Input(i + 1).data,
                               Len(Input(i + 1).data))
      /\ Len(withdraw_dao_infos) = MAX_SWAPS)
     => ret = ERROR_TOO_MANY_SWAPS

\* ------------------------------------------------------------------------
\* C8: the deposit-cell recogniser
\* ------------------------------------------------------------------------
DaoPayloadOk(data) == Len(data) = BLOCK_NUM_LEN

\* C8: a cell of the NervosDAO type whose payload is not exactly 8 bytes ends
\* the run with ERROR_ENCODING, on the input side and on the output side; with
\* 8 bytes not all zero an input is bucketed as a withdrawal, with 8 zero bytes
\* an output is bucketed as a deposit.
C8_DaoPayloadLength ==
  [][ /\ (/\ AtInput
          /\ Input(i + 1).type_hash = NERVOS_DAO_TYPE_HASH
          /\ ~DaoPayloadOk(Input(i + 1).data))
         => ret' = ERROR_ENCODING
      /\ (/\ AtOutput
          /\ Output(i + 1).type_hash = NERVOS_DAO_TYPE_HASH
          /\ ~DaoPayloadOk(Output(i + 1).data))
         => ret' = ERROR_ENCODING
      /\ (/\ AtInput
          /\ Input(i + 1).type_hash = NERVOS_DAO_TYPE_HASH
          /\ DaoPayloadOk(Input(i + 1).data)
          /\ Input(i + 1).data # Zeros(BLOCK_NUM_LEN)
          /\ Len(withdraw_dao_infos) < MAX_SWAPS)
         => Len(withdraw_dao_infos') = Len(withdraw_dao_infos) + 1 ]_vars

\* ------------------------------------------------------------------------
\* C9, C10: align_dao as main calls it
\* ------------------------------------------------------------------------
\* the bucket, and the source of its cells, of the running alignment loop
AlignBucket ==
  CASE pc = "align_withdraw" -> withdraw_dao_infos
    [] pc = "align_input" -> input_wckb_infos
    [] pc = "align_output" -> initialized_wckb
    [] OTHER -> <<>>
AtAlign == ret = RUNNING /\ i < Len(AlignBucket)

\* C9: when the entry's origin height equals the alignment target's block
\* number the call succeeds and delivers the entry's own amount in
\* *calculated_capacity.
C9_EqualHeightIdentity ==
  [][ (AtAlign /\ AlignBucket[i + 1].block_number = align_target_data.block_number)
      => (/\ ret' = RUNNING
          /\ ZeroExtend(calculated_capacity', UDT_LEN) = AlignBucket[i + 1].amount) ]_vars

\* the input position the entry at index k of the running loop's bucket was
\* bucketed from
EntryPosition(k) ==
  IF pc = "align_withdraw" THEN Nth(WithdrawPositions, k)
  ELSE Nth(InputWckbPositions, k)

\* C10: when the entry's origin height is below the target, align_dao loads
\* the occupied capacity and the header of the cell the entry was bucketed
\* from.
C10_AlignReadsOwnCell ==
  [][ (/\ AtAlign
       /\ pc \in {"align_withdraw", "align_input"}
       /\ Lt(AlignBucket[i + 1].block_number, align_target_data.block_number))
      => align_load' = [source |-> "input", index |-> EntryPosition(i)] ]_vars

\* ------------------------------------------------------------------------
\* C5: output alignment
\* ------------------------------------------------------------------------
AtWckbOutput ==
  /\ AtOutput
  /\ Output(i + 1).type_hash = WCKB_TYPE_HASH
  /\ Len(Output(i + 1).data) = UDT_LEN + BLOCK_NUM_LEN

\* C5: a wrapped-token output whose height is neither 0 nor the alignment
\* target's block number makes fetch_outputs return ERROR_OUTPUT_ALIGN; every
\* entry of the initialised bucket has the target's block number; an output of
\* height 0 goes to the uninitialised bucket and never to the initialised one,
\* also when the target's block number is 0.
C5_OutputAlignment ==
  /\ [](\A k \in 1..Len(initialized_wckb) :
          /\ initialized_wckb[k].block_number = align_target_data.block_number
          /\ initialized_wckb[k].block_number # Zeros(BLOCK_NUM_LEN))
  /\ [][ AtWckbOutput =>
         LET height == OutputHeight(i + 1)
             lock == Output(i + 1).lock_hash
         IN  /\ (height # Zeros(BLOCK_NUM_LEN)
                   /\ height # align_target_data.block_number)
                => (/\ ret' = ERROR_OUTPUT_ALIGN
                    /\ UNCHANGED << initialized_wckb, uninitialized_wckb >>)
             /\ height = Zeros(BLOCK_NUM_LEN)
                => (/\ initialized_wckb' = initialized_wckb
                    /\ \/ /\ ret' = ERROR_TOO_MANY_SWAPS
                          /\ Len(uninitialized_wckb) = MAX_SWAPS
                       \/ /\ ret' = RUNNING
                          /\ \E k \in 1..Len(uninitialized_wckb') :
                               uninitialized_wckb'[k].lock_hash = lock) ]_vars

\* Scenario C: output height 100, target 150
C5_Witness ==
  /\ pc = "fetch_outputs"
  /\ ret = ERROR_OUTPUT_ALIGN
  /\ align_target_data.block_number = LE(150, BLOCK_NUM_LEN)
  /\ i < Len(outputs)
  /\ outputs[i + 1] = <<"Inited", 100>>

\* ------------------------------------------------------------------------
\* C4: alignment direction
\* ------------------------------------------------------------------------
High(entry) == Lt(align_target_data.block_number, entry.block_number)

\* some bucketed withdrawal or input token is younger than the target
HighEntry ==
  \/ \E k \in 1..Len(withdraw_dao_infos) : High(withdraw_dao_infos[k])
  \/ \E k \in 1..Len(input_wckb_infos) : High(input_wckb_infos[k])

InputsScanned == pc \notin {"main", "fetch_inputs"}
OutputsScanned == pc \notin {"main", "fetch_inputs", "fetch_outputs"}

\* C4 as claimed: a transaction with a bucketed withdrawal or input token whose
\* origin height is above the alignment target always ends with ERROR_ALIGN.
C4_AlwaysAlignError ==
  (InputsScanned /\ Returned /\ HighEntry) => ret = ERROR_ALIGN

\* C4 as amended: when both scans have succeeded, such a transaction never
\* gets past the alignment loops of the withdrawals and the input tokens; the
\* call of align_dao for an entry above the target returns ERROR_ALIGN whatever
\* the amounts, and the run ends with ERROR_ALIGN unless the alignment of an
\* earlier entry has failed.
C4_AlignDirection ==
  /\ [][ (/\ AtAlign
          /\ pc \in {"align_withdraw", "align_input"}
          /\ High(AlignBucket[i + 1]))
         => ret' = ERROR_ALIGN ]_vars
  /\ []((OutputsScanned /\ HighEntry)
          => /\ pc \in {"align_withdraw", "align_input"}
             /\ Returned =>
                  /\ i < Len(AlignBucket)
                  /\ ret # CKB_SUCCESS
                  /\ (ret = ERROR_ALIGN <=> High(AlignBucket[i + 1])))

C4_Witness ==
  /\ ret = ERROR_ALIGN
  /\ pc = "align_input"
  /\ i = 1
  /\ High(input_wckb_infos[2])
  /\ Len(outputs) > 0

\* ------------------------------------------------------------------------
\* C7: error priority
\* ------------------------------------------------------------------------
\* some initialised output's height differs from the target
MisalignedOutput ==
  \E p \in InitializedOutputs : OutputHeight(p) # align_target_data.block_number

\* C7 as claimed: the first violation in the order input checks, output
\* checks, equation 1, equation 2: an input entry above the target beats a
\* misaligned output, and a violated equation 1 beats a violated equation 2.
C7_InputErrorFirst ==
  Returned =>
    /\ (InputsScanned /\ HighEntry /\ MisalignedOutput) => ret = ERROR_ALIGN
    /\ (ReachedEquations /\ ~ExactEquation1 /\ UnmatchedUninit)
         => ret = ERROR_INCORRECT_OUTPUT_WCKB

StageOrder ==
  << "main", "fetch_inputs", "fetch_outputs", "align_withdraw", "align_input",
     "align_output", "equation1", "equation2" >>
StageIndex(stage) == CHOOSE k \in 1..Len(StageOrder) : StageOrder[k] = stage

\* C7 as amended: the run returns one result, the first failure in the order
\* input scan, output scan, alignment of the withdrawals, of the input tokens,
\* of the initialised outputs, equation 1 on main's 64-bit totals, equation 2.
\* An input entry above the target is found only by the alignment, so with a
\* misaligned output as well the run ends in the output scan; a failed
\* comparison of equation 1 ends the run before equation 2 is looked at.
C7_ErrorPriority ==
  /\ [][ /\ ret = RUNNING
         /\ pc' = pc \/ StageIndex(pc') = StageIndex(pc) + 1
         /\ ret' # RUNNING => pc' = pc ]_vars
  /\ []((Returned /\ InputsScanned /\ HighEntry /\ MisalignedOutput)
          => pc = "fetch_outputs")
  /\ []((Returned /\ pc = "equation1")
          => /\ ret = ERROR_INCORRECT_OUTPUT_WCKB
             /\ ~Equation1(total_input_wckb, total_withdraw_dao, total_output_wckb))
  /\ []((Returned /\ pc = "equation2")
          => /\ ret \in {CKB_SUCCESS, ERROR_INCORRECT_UNINIT_OUTPUT_WCKB}
             /\ Equation1(total_input_wckb, total_withdraw_dao, total_output_wckb))

C7_Witness ==
  /\ ret = ERROR_OUTPUT_ALIGN
  /\ pc = "fetch_outputs"
  /\ HighEntry
  /\ MisalignedOutput

====
